---- MODULE Spec2Model ----
(***************************************************************************)
(* Quiz routes of the reading-rewards backend                              *)
(* (src/src/routes/quizzes.ts): the submitQuiz and                         *)
(* setComprehensionForSubmission handlers and the quiz authoring handlers  *)
(* over the users, books, quizzes and quiz-submission collections; and the *)
(* helper functions computeCurrentLexileMeasure and computeMatchScore.     *)
(*                                                                         *)
(* Time is counted in hours.  A date is stored the way the code stores it: *)
(* as the fixed-width text that Date.toISOString() produces; the model's   *)
(* text is a fixed-width sequence of decimal digits, ordered as text when  *)
(* the code orders text and parsed back where the code parses it.          *)
(***************************************************************************)
EXTENDS Integers, Sequences, FiniteSets, TLC

(***************************************************************************)
(* Bounds of the model.                                                    *)
(***************************************************************************)
\* the clock runs from 0 to MaxTime hours
MaxTime == 6
\* at most MaxSubs submissions are stored (over all students)
MaxSubs == 4
\* ... and at most MaxRatedSubs where comprehension ratings are followed
MaxRatedSubs == 2
\* ... with the clock running to MaxRatedTime
MaxRatedTime == 2
\* the clock of the runs with requests in flight runs to MaxRaceTime
MaxRaceTime == 4
\* the review lists given to computeCurrentLexileMeasure have at most
\* MaxReviews reviews
MaxReviews == 4
\* the books given to computeMatchScore have at most MaxGenres genres
MaxGenres == 2

(***************************************************************************)
(* Configuration imported from ../constants (quizzes.ts line 14).  The     *)
(* file is not part of the sources at hand; the attempt limit is that of   *)
(* the specification's examples, the waiting time is a short one of the    *)
(* same kind (the examples use 24 hours), the passing grade is one a       *)
(* stored quiz gives exactly, so that a score on the boundary occurs.      *)
(***************************************************************************)
MaxNumQuizAttempts == 3
MinHoursBetweenBookQuizAttempt == 2
PassingQuizGrade == 100
MinQuestionsInQuiz == 1
MaxQuestionsInQuiz == 2

(***************************************************************************)
(* Dates as text.                                                          *)
(***************************************************************************)
\* Date.toISOString(): fixed-width, most significant digit first
ToISOString(t) == <<(t \div 10) % 10, t % 10>>

\* moment(text): the instant a stored date text stands for
ParseDate(s) == s[1] * 10 + s[2]

\* text order (the order _.orderBy uses on date_created)
TextLess(a, b) == \/ a[1] < b[1]
                  \/ a[1] = b[1] /\ a[2] < b[2]

(***************************************************************************)
(* The collections the handlers read.  Users and books are not written by  *)
(* any route of quizzes.ts.                                                *)
(***************************************************************************)
UserIds == {"s1", "s2", "a1", "u9"}
BookIds == {"b1", "b2", "b9"}
QuizIds == {"q1", "q9"}

\* userData.getUserById: "u9" is the id of no user
Users == [u \in UserIds |->
            CASE u = "s1" -> [exists |-> TRUE, type |-> "STUDENT"]
              [] u = "s2" -> [exists |-> TRUE, type |-> "STUDENT"]
              [] u = "a1" -> [exists |-> TRUE, type |-> "ADMIN"]
              [] OTHER    -> [exists |-> FALSE, type |-> "NONE"]]

\* bookData.getBook: "b9" is the id of no book
Books == [b \in BookIds |-> [exists |-> b # "b9"]]

\* the authenticated principals (req.authToken)
Principals == {[type |-> "STUDENT", id |-> "s1"],
               [type |-> "STUDENT", id |-> "s2"],
               [type |-> "ADMIN", id |-> "a1"]}

(***************************************************************************)
(* Questions and answers.  A question has a type and its correct value; an *)
(* answer has the shape of one question type and a value.                  *)
(***************************************************************************)
McRight == [shape |-> "mc", val |-> 0]
McWrong == [shape |-> "mc", val |-> 1]
ShortAnswer == [shape |-> "short", val |-> 0]

AnswerValues == {McRight, McWrong, ShortAnswer}

\* The answers field of a request body (joi.any()): absent, a value that is
\* no sequence and has no length, or a sequence of answers.
AnswerLists == {<<>>, <<McRight, McRight>>} \cup {<<a>> : a \in AnswerValues}

AnswersInputs == {[kind |-> "absent", items |-> <<>>],
                  [kind |-> "scalar", items |-> <<>>]}
                 \cup {[kind |-> "list", items |-> a] : a \in AnswerLists}

\* the quizzes collection at start: q1 is the quiz of book b1, q9 is the id
\* of no quiz
InitQuizzes == [q \in QuizIds |->
    IF q = "q1"
      THEN [exists |-> TRUE, book_id |-> "b1",
            questions |-> <<[type |-> "mc", correct |-> 0]>>]
      ELSE [exists |-> FALSE, book_id |-> "none", questions |-> <<>>]]

\* the student_id values of the requests: a student, a user who is no
\* student, and the id of no user
StudentIdInputs == {"s1", "a1", "u9"}

\* request bodies that pass quizSubmissionSchema, with the principal
Requests == [principal : Principals, student_id : StudentIdInputs,
             book_id : BookIds, quiz_id : QuizIds, answers : AnswersInputs]

\* the comprehension values of the requests: 6 is outside the schema
ComprehensionInputs == {1, 5, 6}

\* the handlers in flight at the same time, when they interleave
Slots == {"h1", "h2"}

\* the requests made while handlers interleave: the student's own, with
\* answers that pass and answers that fail
RaceRequests == {r \in Requests :
                    /\ r.principal = [type |-> "STUDENT", id |-> "s1"]
                    /\ r.student_id = "s1"
                    /\ r.book_id \in {"b1", "b2"}
                    /\ r.quiz_id = "q1"
                    /\ r.answers.kind = "list"
                    /\ r.answers.items \in {<<McRight>>, <<McWrong>>}}

VARIABLES
    clock,        \* the current time, in hours
    quizzes,      \* the quizzes collection, by id
    submissions,  \* the quiz-submission collection, in insertion order
    inflight,     \* the submitQuiz handlers waiting between read and write
    last,         \* how the most recent request ended
    calc          \* a call of a helper function: its arguments and its result

vars == <<clock, quizzes, submissions, inflight, last, calc>>

(***************************************************************************)
(* QuizGraderInstance (../quizzes).                                        *)
(***************************************************************************)
\* isAnswerSchemaValid(type, answer): TRUE when it returns null
IsAnswerSchemaValid(type, answer) == answer.shape = type

\* the number of questions answered correctly
RECURSIVE NumCorrect(_, _, _)
NumCorrect(questions, answers, i) ==
    IF i > Len(questions) THEN 0
    ELSE (IF answers[i].val = questions[i].correct THEN 1 ELSE 0)
         + NumCorrect(questions, answers, i + 1)

\* gradeQuiz(quiz, answers): 100 * correct / questions, rounded to the
\* nearest integer
GradeQuiz(quiz, answers) ==
    LET n == Len(quiz.questions)
    IN  (200 * NumCorrect(quiz.questions, answers, 1) + n) \div (2 * n)

(***************************************************************************)
(* How a request ends: the class of the error thrown ("none" for a         *)
(* success), the reason, the date text a cooldown message carries, and     *)
(* whether gradeQuiz was invoked.                                          *)
(***************************************************************************)
Outcome(err, reason) ==
    [err |-> err, reason |-> reason, until |-> <<>>, graded |-> FALSE]

Ok == Outcome("none", "ok")

(***************************************************************************)
(* submitQuiz, lines 160-212: the checks made on the principal, the user   *)
(* and the student's submission history.                                   *)
(***************************************************************************)
\* lines 160-165
FailsIdentity(req) ==
    /\ req.principal.type = "STUDENT"
    /\ req.principal.id # req.student_id

\* quizData.getSubmissionsForStudent
SubmissionsForStudent(subs, student) ==
    SelectSeq(subs, LAMBDA s : s.student_id = student)

\* the sort of line 184 with the order reversed: the oldest submission
MostRecentSubmission_Oldest(subs) ==
    LET i == CHOOSE i \in 1..Len(subs) :
                 /\ \A j \in 1..Len(subs) :
                        ~TextLess(subs[j].date_created, subs[i].date_created)
                 /\ \A j \in 1..(i - 1) :
                        subs[j].date_created # subs[i].date_created
    IN  subs[i]

\* _.orderBy(submissions, 'date_created', 'desc')[0]: the stable sort puts
\* first the earliest stored of the submissions with the greatest date text
MostRecentSubmission(subs) ==
    LET i == CHOOSE i \in 1..Len(subs) :
                 /\ \A j \in 1..Len(subs) :
                        ~TextLess(subs[i].date_created, subs[j].date_created)
                 /\ \A j \in 1..(i - 1) :
                        subs[j].date_created # subs[i].date_created
    IN  subs[i]

\* moment(mostRecentSubmission.date_created).add(MinHours..., 'h')
MustWaitTill(subs) ==
    ParseDate(MostRecentSubmission(subs).date_created)
        + MinHoursBetweenBookQuizAttempt

\* a slip: isSameOrBefore for isBefore
IsBefore_OrSame(now, mustWaitTill) == now <= mustWaitTill

\* moment().isBefore(mustWaitTill)
IsBefore(now, mustWaitTill) == now < mustWaitTill

\* lines 182-192
FailsCooldown(subs, now) ==
    /\ Len(subs) > 0
    /\ IsBefore(now, MustWaitTill(subs))

\* a slip: the filter compares another field with the book
PrevSubmissionsForBook_WrongField(subs, book) ==
    SelectSeq(subs, LAMBDA s : s.quiz_id = book)

\* line 196
PrevSubmissionsForBook(subs, book) ==
    SelectSeq(subs, LAMBDA s : s.book_id = book)

\* a slip: only the first of the previous submissions is looked at
HasPassedSubmission_FirstOnly(prev) == Len(prev) > 0 /\ prev[1].passed

\* a slip: every previous submission must have passed (_.every for _.find)
HasPassedSubmission_Every(prev) == \A i \in 1..Len(prev) : prev[i].passed

\* lines 202-206: _.find(prevSubmissionsForBook, { passed: true })
HasPassedSubmission(prev) == \E i \in 1..Len(prev) : prev[i].passed

\* a slip: > for >=
HasExhaustedAttempts_OffByOne(prev) == Len(prev) > MaxNumQuizAttempts

\* lines 208-210
HasExhaustedAttempts(prev) == Len(prev) >= MaxNumQuizAttempts

\* the checks of lines 160-212 in the order of the code; "all" is the
\* collection as read at line 178
HistoryChecks(req, all, now) ==
    LET user == Users[req.student_id]
        subs == SubmissionsForStudent(all, req.student_id)
        prev == PrevSubmissionsForBook(subs, req.book_id)
    IN  IF FailsIdentity(req)
          THEN Outcome("BadRequestError", "OtherStudent")
        ELSE IF ~user.exists
          THEN Outcome("BadRequestError", "UserDoesNotExist")
        ELSE IF user.type # "STUDENT"
          THEN Outcome("BadRequestError", "UserNotStudent")
        ELSE IF FailsCooldown(subs, now)
          THEN [Outcome("ForbiddenError", "MustWait")
                  EXCEPT !.until = ToISOString(MustWaitTill(subs))]
        ELSE IF Len(prev) > 0 /\ HasPassedSubmission(prev)
          THEN Outcome("ForbiddenError", "AlreadyPassed")
        ELSE IF Len(prev) > 0 /\ HasExhaustedAttempts(prev)
          THEN Outcome("ForbiddenError", "AttemptsExhausted")
        ELSE Ok

(***************************************************************************)
(* submitQuiz, lines 214-258: the checks made on the book, the quiz and    *)
(* the answers, and the grading.                                           *)
(***************************************************************************)
\* line 232: quiz.questions.length !== req.body.answers.length; a value
\* that is no sequence has no length, which differs from every number
CountDiffers(quiz, answers) ==
    \/ answers.kind = "scalar"
    \/ answers.kind = "list" /\ Len(quiz.questions) # Len(answers.items)

\* a slip: the loop starts at the second answer
SomeAnswerInvalid_SkipFirst(quiz, answers) ==
    \E i \in 2..Len(quiz.questions) :
        answers.items[i].shape # quiz.questions[i].type

\* lines 241-248
SomeAnswerInvalid(quiz, answers) ==
    \E i \in 1..Len(quiz.questions) :
        ~IsAnswerSchemaValid(quiz.questions[i].type, answers.items[i])

\* the checks of lines 214-252 in the order of the code; "qs" is the
\* quizzes collection as read at line 224
ContentChecks(req, qs) ==
    LET quiz == qs[req.quiz_id]
    IN  IF ~Books[req.book_id].exists
          THEN Outcome("BadRequestError", "NoSuchBook")
        ELSE IF ~quiz.exists
          THEN Outcome("BadRequestError", "NoSuchQuiz")
        ELSE IF req.answers.kind = "absent"
          THEN Outcome("TypeError", "LengthOfUndefined")
        ELSE IF CountDiffers(quiz, req.answers)
          THEN Outcome("BadRequestError", "CountMismatch")
        ELSE IF SomeAnswerInvalid(quiz, req.answers)
          THEN Outcome("BadRequestError", "InvalidAnswerSchema")
        ELSE [Ok EXCEPT !.graded = TRUE]

\* a slip: > for >= in the passed flag
NewSubmission_StrictPass(req, qs, now, id) ==
    LET n == Len(qs[req.quiz_id].questions)
        right == Cardinality({i \in 1..n :
                    req.answers.items[i].val = qs[req.quiz_id].questions[i].correct})
        quizScore == (200 * right + n) \div (2 * n)
    IN  [id |-> id,
         quiz_id |-> req.quiz_id,
         student_id |-> req.student_id,
         book_id |-> req.book_id,
         answers |-> req.answers.items,
         date_created |-> <<(now \div 10) % 10, now % 10>>,
         score |-> quizScore,
         passed |-> quizScore > PassingQuizGrade,
         comprehension |-> 0]

\* lines 252-258: the submission handed to quizData.submitQuiz, which
\* stores it under a fresh id
NewSubmission(req, qs, now, id) ==
    LET quizScore == GradeQuiz(qs[req.quiz_id], req.answers.items)
    IN  [id |-> id,
         quiz_id |-> req.quiz_id,
         student_id |-> req.student_id,
         book_id |-> req.book_id,
         answers |-> req.answers.items,
         date_created |-> ToISOString(now),
         score |-> quizScore,
         passed |-> quizScore >= PassingQuizGrade,
         comprehension |-> 0]

\* a slip: the book, the quiz and the answers are checked first
SubmitOutcome_ContentFirst(req, all, qs, now) ==
    LET c == ContentChecks(req, qs)
    IN  IF c.err # "none" THEN c
        ELSE LET h == HistoryChecks(req, all, now)
             IN  IF h.err # "none" THEN h ELSE c

\* the whole handler, when nothing runs between its steps
SubmitOutcome(req, all, qs, now) ==
    LET h == HistoryChecks(req, all, now)
    IN  IF h.err # "none" THEN h ELSE ContentChecks(req, qs)

(***************************************************************************)
(* The actions.                                                            *)
(***************************************************************************)
\* no helper function called
NoCall == [fn |-> "none"]

\* no handler in flight
Idle == [pc |-> "idle", req |-> <<>>, seen |-> 0]

Init ==
    /\ clock = 0
    /\ quizzes = InitQuizzes
    /\ submissions = <<>>
    /\ inflight = [k \in Slots |-> Idle]
    /\ last = Outcome("none", "start")
    /\ calc = NoCall

\* an hour passes, up to the hour "until"
TickTo(until) ==
    /\ clock < until
    /\ clock' = clock + 1
    /\ UNCHANGED <<quizzes, submissions, inflight, last, calc>>

Tick == TickTo(MaxTime)

\* quizData.submitQuiz: the collection with the submission added
Stored(all, submission) == Append(all, submission)

\* the create made before the check of the answers' schemas
SubmitQuizWithin_WriteBeforeChecks(req, cap) ==
    LET out == SubmitOutcome(req, submissions, quizzes, clock)
    IN  /\ last' = out
        /\ IF out.reason \in {"ok", "InvalidAnswerSchema"}
             THEN /\ Len(submissions) < cap
                  /\ submissions' = Stored(submissions,
                        [NewSubmission(req, quizzes, clock, Len(submissions) + 1)
                            EXCEPT !.score = 0, !.passed = FALSE])
             ELSE UNCHANGED submissions
        /\ UNCHANGED <<clock, quizzes, inflight, calc>>

\* submitQuiz (lines 157-264), run without interleaving, while fewer than
\* "cap" submissions are stored
SubmitQuizWithin(req, cap) ==
    LET out == SubmitOutcome(req, submissions, quizzes, clock)
    IN  /\ last' = out
        /\ IF out.err = "none"
             THEN /\ Len(submissions) < cap
                  /\ submissions' = Stored(submissions,
                        NewSubmission(req, quizzes, clock, Len(submissions) + 1))
             ELSE UNCHANGED submissions
        /\ UNCHANGED <<clock, quizzes, inflight, calc>>

SubmitQuiz(req) == SubmitQuizWithin(req, MaxSubs)

Next ==
    \/ Tick
    \/ \E req \in Requests : SubmitQuiz(req)

Spec == Init /\ [][Next]_vars

(***************************************************************************)
(* setComprehensionForSubmission, lines 283-310.                           *)
(***************************************************************************)
\* quizSubmissionComprehensionSchema, line 38
IsValidComprehension(c) == c \in {1, 2, 3, 4, 5}

\* the ratings the body schema accepts
ValidComprehensions == {c \in ComprehensionInputs : IsValidComprehension(c)}

\* the rating written to the score
UpdatedSubmission_IntoScore(submission, comprehension) ==
    [submission EXCEPT !.score = comprehension]

\* lines 301-303: _.assign({}, submission, { comprehension })
UpdatedSubmission(submission, comprehension) ==
    [submission EXCEPT !.comprehension = comprehension]

\* quizData.updateQuizSubmission: the stored document of the same id is
\* replaced by the one given
Updated(all, submission) ==
    [i \in 1..Len(all) |->
        IF all[i].id = submission.id THEN submission ELSE all[i]]

\* the check of line 297 left out
ComprehensionOutcome_AnyPrincipal(principal, id, comprehension, all) ==
    IF ~IsValidComprehension(comprehension)
      THEN Outcome("BadRequestError", "InvalidComprehension")
    ELSE IF ~(\E i \in 1..Len(all) : all[i].id = id)
      THEN Outcome("ResourceNotFoundError", "NoSuchSubmission")
    ELSE Ok

ComprehensionOutcome(principal, id, comprehension, all) ==
    IF ~IsValidComprehension(comprehension)
      THEN Outcome("BadRequestError", "InvalidComprehension")
    ELSE IF ~(\E i \in 1..Len(all) : all[i].id = id)
      THEN Outcome("ResourceNotFoundError", "NoSuchSubmission")
    ELSE IF /\ principal.type = "STUDENT"
            /\ principal.id # all[id].student_id
      THEN Outcome("BadRequestError", "OtherStudentSubmission")
    ELSE Ok

\* the handler, run without interleaving
SetComprehension(principal, id, comprehension) ==
    LET out == ComprehensionOutcome(principal, id, comprehension, submissions)
    IN  /\ last' = out
        /\ IF out.err = "none"
             THEN submissions' = Updated(submissions,
                      UpdatedSubmission(submissions[id], comprehension))
             ELSE UNCHANGED submissions
        /\ UNCHANGED <<clock, quizzes, inflight, calc>>

NextRated ==
    \/ TickTo(MaxRatedTime)
    \/ \E req \in Requests : SubmitQuizWithin(req, MaxRatedSubs)
    \/ \E p \in Principals, id \in 1..(MaxRatedSubs + 1),
          c \in ComprehensionInputs : SetComprehension(p, id, c)

SpecRated == Init /\ [][NextRated]_vars

(***************************************************************************)
(* submitQuiz when handlers interleave: the handler reads the student's    *)
(* submissions (line 178) and makes its checks on what it read; it waits   *)
(* for the book and the quiz (lines 216, 224) and then grades and writes   *)
(* (lines 252-260).  Other handlers run while it waits.                    *)
(***************************************************************************)
\* lines 160-212
SubmitRead(k, req) ==
    LET out == HistoryChecks(req, submissions, clock)
    IN  /\ inflight[k].pc = "idle"
        /\ IF out.err = "none"
             THEN /\ inflight' = [inflight EXCEPT ![k] =
                        [pc |-> "checked", req |-> req,
                         seen |-> Len(submissions)]]
                  /\ UNCHANGED last
             ELSE /\ last' = out
                  /\ UNCHANGED inflight
        /\ UNCHANGED <<clock, quizzes, submissions, calc>>

\* lines 214-260
SubmitWrite(k) ==
    LET req == inflight[k].req
        out == ContentChecks(req, quizzes)
    IN  /\ inflight[k].pc = "checked"
        /\ inflight' = [inflight EXCEPT ![k] = Idle]
        /\ last' = out
        /\ IF out.err = "none"
             THEN submissions' = Stored(submissions,
                      NewSubmission(req, quizzes, clock, Len(submissions) + 1))
             ELSE UNCHANGED submissions
        /\ UNCHANGED <<clock, quizzes, calc>>

NextRace ==
    \/ TickTo(MaxRaceTime)
    \/ \E k \in Slots, req \in RaceRequests : SubmitRead(k, req)
    \/ \E k \in Slots : SubmitWrite(k)

SpecRace == Init /\ [][NextRace]_vars

(***************************************************************************)
(* setComprehensionForSubmission when handlers interleave: the handler     *)
(* reads the submission (line 291) and makes its checks on what it read;   *)
(* it builds the updated submission from that copy (lines 301-303) and     *)
(* writes it (line 305).  Other handlers run between the read and the      *)
(* write.                                                                  *)
(***************************************************************************)
\* lines 283-299: "seen" is the number of submissions stored at the read
RateRead(k, principal, id, comprehension) ==
    LET out == ComprehensionOutcome(principal, id, comprehension, submissions)
    IN  /\ inflight[k].pc \in {"idle", "rated"}
        /\ IF out.err = "none"
             THEN /\ inflight' = [inflight EXCEPT ![k] =
                        [pc |-> "rating",
                         req |-> [submission |-> submissions[id],
                                  comprehension |-> comprehension],
                         seen |-> Len(submissions)]]
                  /\ UNCHANGED last
             ELSE /\ last' = out
                  /\ UNCHANGED inflight
        /\ UNCHANGED <<clock, quizzes, submissions, calc>>

\* lines 301-305; the handler that has written stays on record until the
\* next one starts
RateWrite(k) ==
    LET req == inflight[k].req
    IN  /\ inflight[k].pc = "rating"
        /\ submissions' = Updated(submissions,
                UpdatedSubmission(req.submission, req.comprehension))
        /\ inflight' = [inflight EXCEPT ![k].pc = "rated"]
        /\ last' = Ok
        /\ UNCHANGED <<clock, quizzes, calc>>

\* the principals of the rating requests made while handlers interleave:
\* the student who submits and another student
RacePrincipals == {p \in Principals : p.type = "STUDENT"}

\* the submissions made meanwhile: a passing one for the first book and a
\* failing one for the second
RatedRaceRequests ==
    {r \in RaceRequests : (r.book_id = "b1") = (r.answers.items = <<McRight>>)}

NextRatedRace ==
    \/ TickTo(MaxRatedTime)
    \/ \E req \in RatedRaceRequests : SubmitQuizWithin(req, MaxRatedSubs)
    \/ \E k \in Slots, p \in RacePrincipals, id \in 1..MaxRatedSubs,
          c \in ValidComprehensions : RateRead(k, p, id, c)
    \/ \E k \in Slots : RateWrite(k)

SpecRatedRace == Init /\ [][NextRatedRace]_vars

(***************************************************************************)
(* Quiz authoring: createQuiz (lines 63-95), updateQuiz (lines 96-117) and *)
(* deleteQuiz (lines 118-133).                                             *)
(***************************************************************************)
\* question definitions an author sends: a valid multiple-choice one and a
\* valid short-answer one, a multiple-choice one whose correct-answer
\* field is missing, one of a type the registry does not know, and one
\* with no type
McQuestion == [type |-> "mc", correct |-> 0]
ShortQuestion == [type |-> "short", correct |-> 1]
McQuestionNoCorrect == [type |-> "mc", correct |-> -1]
UnknownTypeQuestion == [type |-> "essay", correct |-> 0]
NoTypeQuestion == [type |-> "", correct |-> 0]

QuestionLists == {<<>>, <<McQuestion>>, <<McQuestionNoCorrect>>,
                  <<UnknownTypeQuestion>>, <<NoTypeQuestion>>,
                  <<McQuestion, ShortQuestion>>,
                  <<McQuestion, McQuestionNoCorrect>>,
                  <<McQuestion, McQuestion, McQuestion>>}

\* the fields of a quiz body: "none" is an absent book_id
QuizBodies == [book_id : {"none", "b1", "b9"}, questions : QuestionLists]

\* QuestionSchema (../quizzes/question_schemas), the schema common to all
\* question types: the type tag is present
QuestionSchema(question) == question.type # ""

\* the question types of the registry
QuestionTypes == {"mc", "short"}

\* QuizGraderInstance.isQuestionSchemaValid(question): TRUE when it
\* returns null
IsQuestionSchemaValid(question) ==
    /\ question.type \in QuestionTypes
    /\ question.correct >= 0

\* inputQuizSchema, lines 20-23
InputQuizSchema(body) ==
    /\ Len(body.questions) >= MinQuestionsInQuiz
    /\ Len(body.questions) <= MaxQuestionsInQuiz
    /\ \A i \in 1..Len(body.questions) : QuestionSchema(body.questions[i])

\* isBookValid, lines 51-57
IsBookValid(body) ==
    IF body.book_id # "none" THEN Books[body.book_id].exists ELSE TRUE

\* Middle.authorize([UserType.ADMIN])
IsAuthorized(principal) == principal.type = "ADMIN"

\* the stored form of a quiz, and the entry of an id that is no quiz's
StoredQuiz(body) ==
    [exists |-> TRUE, book_id |-> body.book_id, questions |-> body.questions]

NoQuiz == [exists |-> FALSE, book_id |-> "none", questions |-> <<>>]

\* lines 65-87
CreateOutcome(principal, body) ==
    IF ~IsAuthorized(principal)
      THEN Outcome("ForbiddenError", "NotAuthorized")
    ELSE IF ~InputQuizSchema(body)
      THEN Outcome("BadRequestError", "InvalidBody")
    ELSE IF ~IsBookValid(body)
      THEN Outcome("BadRequestError", "NoSuchBook")
    ELSE IF \E i \in 1..Len(body.questions) :
                ~IsQuestionSchemaValid(body.questions[i])
      THEN Outcome("BadRequestError", "InvalidQuestion")
    ELSE Ok

\* createQuiz: the data layer gives the quiz an id no quiz has
CreateQuiz(principal, body) ==
    LET out == CreateOutcome(principal, body)
        free == {q \in QuizIds : ~quizzes[q].exists}
    IN  /\ last' = out
        /\ IF out.err = "none"
             THEN /\ free # {}
                  /\ \E q \in free :
                        quizzes' = [quizzes EXCEPT ![q] = StoredQuiz(body)]
             ELSE UNCHANGED quizzes
        /\ UNCHANGED <<clock, submissions, inflight, calc>>

\* lines 98-112: "quizId" is the id in the path, "id" the _id of the body
UpdateOutcome(principal, quizId, id, body, qs) ==
    IF ~IsAuthorized(principal)
      THEN Outcome("ForbiddenError", "NotAuthorized")
    ELSE IF ~InputQuizSchema(body)
      THEN Outcome("BadRequestError", "InvalidBody")
    ELSE IF quizId # id
      THEN Outcome("BadRequestError", "IdsDiffer")
    ELSE IF ~IsBookValid(body)
      THEN Outcome("BadRequestError", "NoSuchBook")
    ELSE IF ~qs[id].exists
      THEN Outcome("ResourceNotFoundError", "NoSuchQuiz")
    ELSE Ok

UpdateQuiz(principal, quizId, id, body) ==
    LET out == UpdateOutcome(principal, quizId, id, body, quizzes)
    IN  /\ last' = out
        /\ IF out.err = "none"
             THEN quizzes' = [quizzes EXCEPT ![id] = StoredQuiz(body)]
             ELSE UNCHANGED quizzes
        /\ UNCHANGED <<clock, submissions, inflight, calc>>

\* lines 120-130
DeleteOutcome(principal, quizId, qs) ==
    IF ~IsAuthorized(principal)
      THEN Outcome("ForbiddenError", "NotAuthorized")
    ELSE IF ~qs[quizId].exists
      THEN Outcome("ResourceNotFoundError", "NoSuchQuiz")
    ELSE Ok

DeleteQuiz(principal, quizId) ==
    LET out == DeleteOutcome(principal, quizId, quizzes)
    IN  /\ last' = out
        /\ IF out.err = "none"
             THEN quizzes' = [quizzes EXCEPT ![quizId] = NoQuiz]
             ELSE UNCHANGED quizzes
        /\ UNCHANGED <<clock, submissions, inflight, calc>>

NextAuthoring ==
    \/ \E p \in Principals, body \in QuizBodies : CreateQuiz(p, body)
    \/ \E p \in Principals, quizId \in QuizIds, id \in QuizIds,
          body \in QuizBodies : UpdateQuiz(p, quizId, id, body)
    \/ \E p \in Principals, quizId \in QuizIds : DeleteQuiz(p, quizId)

SpecAuthoring == Init /\ [][NextAuthoring]_vars

(***************************************************************************)
(* computeCurrentLexileMeasure (helpers, lines 43-64).  A number that a    *)
(* division produces is kept as the quotient num / den, not rounded.       *)
(***************************************************************************)
Review(lexile, comprehension, hour) ==
    [book_lexile_measure |-> lexile, comprehension |-> comprehension,
     date_submitted |-> ToISOString(hour)]

\* book reviews: two of the same date with different measures, two more
\* recent ones and an older one
ReviewInputs == {Review(400, 4, 1), Review(700, 4, 1), Review(400, 1, 2),
                 Review(700, 5, 3), Review(550, 3, 0)}

InitialLexileInputs == {500, 900}

\* the review lists of at most MaxReviews reviews
ReviewLists ==
    UNION {[1..n -> ReviewInputs] : n \in 0..MaxReviews}

\* one step of the stable sort: the review goes behind every review of
\* the same or a later date
RECURSIVE InsertDesc(_, _)
InsertDesc(sorted, review) ==
    IF sorted = <<>> THEN <<review>>
    ELSE IF TextLess(Head(sorted).date_submitted, review.date_submitted)
      THEN <<review>> \o sorted
    ELSE <<Head(sorted)>> \o InsertDesc(Tail(sorted), review)

\* the sort with the order reversed: the oldest review first
RECURSIVE InsertAsc(_, _)
InsertAsc(sorted, review) ==
    IF sorted = <<>> THEN <<review>>
    ELSE IF TextLess(review.date_submitted, Head(sorted).date_submitted)
      THEN <<review>> \o sorted
    ELSE <<Head(sorted)>> \o InsertAsc(Tail(sorted), review)

RECURSIVE OrderByAsc(_)
OrderByAsc(reviews) ==
    IF reviews = <<>> THEN <<>>
    ELSE InsertAsc(OrderByAsc(SubSeq(reviews, 1, Len(reviews) - 1)),
                   reviews[Len(reviews)])

\* line 55: _.orderBy(bookReviews, 'date_submitted', 'desc'), a stable
\* sort: reviews of the same date keep the order of the input
RECURSIVE OrderByDesc(_)
OrderByDesc(reviews) ==
    IF reviews = <<>> THEN <<>>
    ELSE InsertDesc(OrderByDesc(SubSeq(reviews, 1, Len(reviews) - 1)),
                    reviews[Len(reviews)])

\* line 56: slice(0, 3)
RecentReviews(reviews) == SubSeq(OrderByDesc(reviews), 1, 3)

\* line 60
AdjustedLexileSignal(review) ==
    review.book_lexile_measure + 50 * (review.comprehension - 4)

\* lines 59-62: _.reduce(recentReviews, ..., 0)
RECURSIVE Total(_)
Total(recent) ==
    IF recent = <<>> THEN 0
    ELSE Total(SubSeq(recent, 1, Len(recent) - 1))
         + AdjustedLexileSignal(recent[Len(recent)])

\* lines 43-64
ComputeCurrentLexileMeasure(initialLexileMeasure, bookReviews) ==
    IF Len(bookReviews) < 3
      THEN [num |-> initialLexileMeasure, den |-> 1]
      ELSE [num |-> Total(RecentReviews(bookReviews)),
            den |-> Len(RecentReviews(bookReviews))]

\* the arguments of a call are any initial measure and any review list
InitLexile ==
    /\ clock = 0
    /\ quizzes = InitQuizzes
    /\ submissions = <<>>
    /\ inflight = [k \in Slots |-> Idle]
    /\ last = Outcome("none", "start")
    /\ calc \in [fn : {"lexileArgs"}, initial : InitialLexileInputs,
                 reviews : ReviewLists]

\* the call
CallLexile ==
    /\ calc.fn = "lexileArgs"
    /\ calc' = [fn |-> "lexile", initial |-> calc.initial,
                reviews |-> calc.reviews,
                result |-> ComputeCurrentLexileMeasure(calc.initial,
                                                       calc.reviews)]
    /\ UNCHANGED <<clock, quizzes, submissions, inflight, last>>

NextLexile == CallLexile

SpecLexile == InitLexile /\ [][NextLexile]_vars

(***************************************************************************)
(* computeMatchScore (helpers, lines 66-88).                               *)
(***************************************************************************)
GenreIds == {"g1", "g2", "g3"}

\* the genres of a book, in the order the book lists them
GenreLists == UNION {[1..n -> GenreIds] : n \in 0..MaxGenres}

\* a student's interests: a level for each genre of a part of the genres
InterestLevels == {1, 2, 4}

GenreInterestMaps ==
    UNION {[D -> InterestLevels] : D \in SUBSET {"g1", "g2"}}

\* amazon_popularity, as quotients: 0, 4.5 and 5
PopularityInputs == {[num |-> 0, den |-> 1], [num |-> 9, den |-> 2],
                     [num |-> 5, den |-> 1]}

BookInputs == [genres : GenreLists, amazon_popularity : PopularityInputs]

\* the interest taken for a genre the map has no entry for
InterestOf_DefaultFour(genreInterests, genreId) ==
    IF genreId \in DOMAIN genreInterests THEN genreInterests[genreId] ELSE 4

\* lines 73-78
InterestOf(genreInterests, genreId) ==
    IF genreId \in DOMAIN genreInterests THEN genreInterests[genreId] ELSE 3

\* the sum _.mean takes of the interests
RECURSIVE SumInterests(_, _)
SumInterests(genreInterests, genres) ==
    IF genres = <<>> THEN 0
    ELSE InterestOf(genreInterests, Head(genres))
         + SumInterests(genreInterests, Tail(genres))

\* line 81: _.mean(userInterestsInGenres); of no interests it is the
\* quotient 0 / 0, which is no number
InterestFactor(genreInterests, genres) ==
    [num |-> SumInterests(genreInterests, genres), den |-> Len(genres)]

\* lines 66-88
ComputeMatchScore(genreInterests, book) ==
    LET interestFactor == InterestFactor(genreInterests, book.genres)
    IN  [num |-> book.amazon_popularity.num * interestFactor.num,
         den |-> book.amazon_popularity.den * interestFactor.den * 20]

InitMatch ==
    /\ clock = 0
    /\ quizzes = InitQuizzes
    /\ submissions = <<>>
    /\ inflight = [k \in Slots |-> Idle]
    /\ last = Outcome("none", "start")
    /\ calc \in [fn : {"matchArgs"}, genreInterests : GenreInterestMaps,
                 book : BookInputs]

CallMatch ==
    /\ calc.fn = "matchArgs"
    /\ calc' = [fn |-> "match", genreInterests |-> calc.genreInterests,
                book |-> calc.book,
                result |-> ComputeMatchScore(calc.genreInterests, calc.book)]
    /\ UNCHANGED <<clock, quizzes, submissions, inflight, last>>

NextMatch == CallMatch

SpecMatch == InitMatch /\ [][NextMatch]_vars

(***************************************************************************)
(* Notions the properties are stated in.  They are written from the        *)
(* stored collection itself, not from the handler's helpers.               *)
(***************************************************************************)
\* the positions of the stored submissions of a student / of a pair
IndicesOf(student) ==
    {i \in 1..Len(submissions) : submissions[i].student_id = student}

PairIndices(student, book) ==
    {i \in IndicesOf(student) : submissions[i].book_id = book}

HasPassed(student, book) ==
    \E i \in PairIndices(student, book) : submissions[i].passed

\* the time of the student's most recent submission, over all books
LatestTime(student) ==
    LET times == {ParseDate(submissions[i].date_created) : i \in IndicesOf(student)}
    IN  CHOOSE t \in times : \A u \in times : u <= t

\* the request is in the student's cooldown window at the current time
InCooldown(student) ==
    /\ IndicesOf(student) # {}
    /\ clock < LatestTime(student) + MinHoursBetweenBookQuizAttempt

\* what the handler does with the request in the current state
OutcomeNow(req) == SubmitOutcome(req, submissions, quizzes, clock)

\* requests a student makes for themselves
OwnRequests == {r \in Requests : /\ r.principal.type = "STUDENT"
                                 /\ r.principal.id = r.student_id}

Rejected(out) == out.err # "none"

(***************************************************************************)
(* C1 as stated: in every reachable state, every attempt a student makes   *)
(* for a book they have a passed submission for is rejected with the       *)
(* already-passed reason, whatever the time elapsed.                       *)
(***************************************************************************)
C1_AlwaysAlreadyPassedReason ==
    \A r \in OwnRequests :
        HasPassed(r.student_id, r.book_id)
            => OutcomeNow(r).reason = "AlreadyPassed"

(***************************************************************************)
(* C1 amended: every such attempt is rejected; with the cooldown reason    *)
(* while the student's cooldown window is open (the cooldown check comes   *)
(* first), and with the already-passed reason from then on, for any number *)
(* of prior attempts.                                                      *)
(***************************************************************************)
C1_PassedBookIsRejected ==
    \A r \in OwnRequests :
        HasPassed(r.student_id, r.book_id)
            => /\ Rejected(OutcomeNow(r))
               /\ OutcomeNow(r).reason =
                    IF InCooldown(r.student_id) THEN "MustWait"
                                                ELSE "AlreadyPassed"

\* an attempt was rejected as already passed, for a book the student passed
\* on a second or later attempt
C1_Witness ==
    /\ last.reason = "AlreadyPassed"
    /\ \E b \in BookIds :
          /\ HasPassed("s1", b)
          /\ Cardinality(PairIndices("s1", b)) >= 2
          /\ ~InCooldown("s1")

(***************************************************************************)
(* C2 as stated: in every reachable state, every attempt a student makes   *)
(* for a book they have MaxNumQuizAttempts or more submissions for, none   *)
(* passed, is rejected with the exhausted-attempts reason.                 *)
(***************************************************************************)
C2_AlwaysExhaustedReason ==
    \A r \in OwnRequests :
        (/\ Cardinality(PairIndices(r.student_id, r.book_id)) >= MaxNumQuizAttempts
         /\ ~HasPassed(r.student_id, r.book_id))
            => OutcomeNow(r).reason = "AttemptsExhausted"

(***************************************************************************)
(* C2 amended: every such attempt is rejected; with the cooldown reason    *)
(* while the student's cooldown window is open, and with the               *)
(* exhausted-attempts reason from then on.                                 *)
(***************************************************************************)
C2_ExhaustedBookIsRejected ==
    \A r \in OwnRequests :
        (/\ Cardinality(PairIndices(r.student_id, r.book_id)) >= MaxNumQuizAttempts
         /\ ~HasPassed(r.student_id, r.book_id))
            => /\ Rejected(OutcomeNow(r))
               /\ OutcomeNow(r).reason =
                    IF InCooldown(r.student_id) THEN "MustWait"
                                                ELSE "AttemptsExhausted"

\* an attempt was rejected for exhausted attempts, after the cooldown
C2_Witness ==
    /\ last.reason = "AttemptsExhausted"
    /\ ~InCooldown("s1")
    /\ \E b \in BookIds :
          /\ Cardinality(PairIndices("s1", b)) = MaxNumQuizAttempts
          /\ ~HasPassed("s1", b)

(***************************************************************************)
(* C3: in every reachable state, for every request that gets past the      *)
(* identity check for a student whose most recent submission over all      *)
(* books was made at T: before T + MinHoursBetweenBookQuizAttempt it is    *)
(* rejected with the cooldown reason carrying that time as date text, from *)
(* that time on it is not rejected by the cooldown check; a request for a  *)
(* student without submissions is never rejected by the cooldown check.    *)
(***************************************************************************)
C3_Cooldown ==
    \A r \in Requests :
        ~FailsIdentity(r) =>
            IF IndicesOf(r.student_id) = {}
              THEN OutcomeNow(r).reason # "MustWait"
            ELSE IF clock < LatestTime(r.student_id) + MinHoursBetweenBookQuizAttempt
              THEN /\ OutcomeNow(r).err = "ForbiddenError"
                   /\ OutcomeNow(r).reason = "MustWait"
                   /\ ParseDate(OutcomeNow(r).until) =
                        LatestTime(r.student_id) + MinHoursBetweenBookQuizAttempt
              ELSE OutcomeNow(r).reason # "MustWait"

\* an attempt was rejected by the cooldown check one hour before the window
\* closes, the most recent submission being for one book and not the latest
\* stored for the other
C3_Witness ==
    /\ last.reason = "MustWait"
    /\ ParseDate(last.until) = clock + 1
    /\ PairIndices("s1", "b1") # {}
    /\ PairIndices("s1", "b2") # {}

(***************************************************************************)
(* C4: without interleaving, in every reachable state no submission of a   *)
(* (student, book) pair was created after a passed one of the pair: a pair *)
(* has at most one passed submission, and it is the last of the pair.      *)
(***************************************************************************)
C4_PassedIsLast ==
    \A i, j \in 1..Len(submissions) :
        (/\ i < j
         /\ submissions[i].student_id = submissions[j].student_id
         /\ submissions[i].book_id = submissions[j].book_id)
            => ~submissions[i].passed

\* a pair that passed on a second or later attempt, and a later submission
\* for another book
C4_Witness ==
    \E i, j \in 1..Len(submissions) :
        /\ i < j
        /\ submissions[i].passed
        /\ submissions[j].book_id # submissions[i].book_id
        /\ Cardinality(PairIndices(submissions[i].student_id,
                                   submissions[i].book_id)) >= 2

(***************************************************************************)
(* C5: without interleaving, in every reachable state every (student,      *)
(* book) pair has at most MaxNumQuizAttempts stored submissions.           *)
(***************************************************************************)
C5_AtMostMaxAttempts ==
    \A u \in UserIds, b \in BookIds :
        Cardinality(PairIndices(u, b)) <= MaxNumQuizAttempts

\* a pair at the limit and a further submission of the same student
C5_Witness ==
    \E b \in BookIds :
        /\ Cardinality(PairIndices("s1", b)) = MaxNumQuizAttempts
        /\ Cardinality(IndicesOf("s1")) > MaxNumQuizAttempts

SamePair(a, b) == a.student_id = b.student_id /\ a.book_id = b.book_id

\* the new submission breaks the rules of the pair, given the stored ones
BreaksPairRules(new, stored) ==
    \/ \E i \in 1..Len(stored) : SamePair(stored[i], new) /\ stored[i].passed
    \/ Cardinality({i \in 1..Len(stored) : SamePair(stored[i], new)})
           >= MaxNumQuizAttempts

(***************************************************************************)
(* C6: when handlers interleave, every submission is written by a handler  *)
(* whose checks held of the submissions it had read: what it read held no  *)
(* passed submission of the pair and fewer than MaxNumQuizAttempts         *)
(* submissions of the pair.  A write for a pair that, when it lands, has   *)
(* a passed submission or MaxNumQuizAttempts submissions is one of a       *)
(* handler that read before another submission of the pair landed.  The    *)
(* state the claim says is reachable is C6_Witness.                        *)
(***************************************************************************)
C6_WritesFollowStaleReads ==
    [][Len(submissions') > Len(submissions) =>
        LET new == submissions'[Len(submissions')]
        IN  \E k \in Slots :
              /\ inflight[k].pc = "checked"
              /\ inflight'[k].pc = "idle"
              /\ SamePair(inflight[k].req, new)
              /\ ~BreaksPairRules(new, SubSeq(submissions, 1, inflight[k].seen))
              /\ BreaksPairRules(new, submissions) =>
                    \E i \in (inflight[k].seen + 1)..Len(submissions) :
                        SamePair(submissions[i], new)]_vars

\* a pair with more than MaxNumQuizAttempts submissions, one of them created
\* after a passed one
C6_Witness ==
    \E b \in BookIds :
        /\ Cardinality(PairIndices("s1", b)) > MaxNumQuizAttempts
        /\ \E i, j \in PairIndices("s1", b) : i < j /\ submissions[i].passed

(***************************************************************************)
(* The checks of submitQuiz, each stated on its own: whether the request   *)
(* fails it in the current state.  The answer checks are about answers     *)
(* that came with the request, for a quiz that exists.                     *)
(***************************************************************************)
FailsCheck(check, r) ==
    LET user == Users[r.student_id]
        quiz == quizzes[r.quiz_id]
    IN  CASE check = "OtherStudent" ->
               r.principal.type = "STUDENT" /\ r.principal.id # r.student_id
          [] check = "UserDoesNotExist" -> ~user.exists
          [] check = "UserNotStudent" -> user.exists /\ user.type # "STUDENT"
          [] check = "NoSuchBook" -> ~Books[r.book_id].exists
          [] check = "NoSuchQuiz" -> ~quiz.exists
          [] check = "MustWait" -> InCooldown(r.student_id)
          [] check = "AlreadyPassed" -> HasPassed(r.student_id, r.book_id)
          [] check = "AttemptsExhausted" ->
               Cardinality(PairIndices(r.student_id, r.book_id))
                   >= MaxNumQuizAttempts
          [] check = "CountMismatch" ->
               /\ quiz.exists
               /\ r.answers.kind # "absent"
               /\ \/ r.answers.kind # "list"
                  \/ Len(r.answers.items) # Len(quiz.questions)
          [] check = "InvalidAnswerSchema" ->
               /\ quiz.exists
               /\ r.answers.kind = "list"
               /\ Len(r.answers.items) = Len(quiz.questions)
               /\ \E i \in 1..Len(quiz.questions) :
                     r.answers.items[i].shape # quiz.questions[i].type

\* the order the claim gives: the book and the quiz right after the user
StatedOrder == <<"OtherStudent", "UserDoesNotExist", "UserNotStudent",
                 "NoSuchBook", "NoSuchQuiz",
                 "MustWait", "AlreadyPassed", "AttemptsExhausted",
                 "CountMismatch", "InvalidAnswerSchema">>

\* the order of the handler: the book and the quiz after the history checks
HandlerOrder == <<"OtherStudent", "UserDoesNotExist", "UserNotStudent",
                  "MustWait", "AlreadyPassed", "AttemptsExhausted",
                  "NoSuchBook", "NoSuchQuiz",
                  "CountMismatch", "InvalidAnswerSchema">>

\* a request that fails a check is rejected with the reason of the check it
\* fails first in the order
RejectedByFirstOf(order, r) ==
    LET failed == {k \in 1..Len(order) : FailsCheck(order[k], r)}
        out == OutcomeNow(r)
    IN  failed # {} =>
            LET first == CHOOSE k \in failed : \A j \in failed : k <= j
            IN  Rejected(out) /\ out.reason = order[first]

(***************************************************************************)
(* C7 as stated: in every reachable state, every request that fails a      *)
(* check is rejected with the reason of the first check it fails in the    *)
(* order identity, user, book, quiz, cooldown, already-passed,             *)
(* attempt-exhaustion, answer count, per-answer schema.                    *)
(***************************************************************************)
C7_StatedOrder == \A r \in Requests : RejectedByFirstOf(StatedOrder, r)

(***************************************************************************)
(* C7 amended: the order is identity, user, cooldown, already-passed,      *)
(* attempt-exhaustion, book, quiz, answer count, per-answer schema; a      *)
(* request that fails a check is rejected with the reason of the first     *)
(* check it fails in this order.                                           *)
(***************************************************************************)
C7_HandlerOrder == \A r \in Requests : RejectedByFirstOf(HandlerOrder, r)

\* a request was rejected by the cooldown check in a state where a request
\* of the student for a missing book fails both checks
C7_Witness ==
    /\ last.reason = "MustWait"
    /\ \E r \in OwnRequests :
          /\ FailsCheck("MustWait", r)
          /\ FailsCheck("NoSuchBook", r)
          /\ FailsCheck("NoSuchQuiz", r)
          /\ OutcomeNow(r).reason = "MustWait"

C9_PassedIffScore ==
    /\ [](\A i \in 1..Len(submissions) :
            submissions[i].passed = (submissions[i].score >= PassingQuizGrade))
    /\ [][\A i \in 1..Len(submissions) :
            /\ submissions'[i].score = submissions[i].score
            /\ submissions'[i].passed = submissions[i].passed]_vars

\* a passed and a failed submission, both rated
C9_Witness ==
    \E i, j \in 1..Len(submissions) :
        /\ submissions[i].passed /\ submissions[i].comprehension # 0
        /\ ~submissions[j].passed /\ submissions[j].comprehension # 0

\* the error classes the transport layer maps to a status of their own
TaggedErrors == {"BadRequestError", "ForbiddenError", "ResourceNotFoundError"}

(***************************************************************************)
(* C10 as stated: no request that passes the body schema ends with an      *)
(* error that is none of the tagged failures.                              *)
(***************************************************************************)
C10_NeverUntagged == last.err \in TaggedErrors \cup {"none"}

(***************************************************************************)
(* C11 as stated: after any sequence of createQuiz and updateQuiz calls,   *)
(* every question of every stored quiz passes isQuestionSchemaValid (its   *)
(* type is known and its definition is valid).                             *)
(***************************************************************************)
C11_StoredQuestionsValid ==
    \A q \in QuizIds :
        quizzes[q].exists =>
            \A i \in 1..Len(quizzes[q].questions) :
                IsQuestionSchemaValid(quizzes[q].questions[i])

\* how a rating request would end in the current state
RatingNow(p, id, c) == ComprehensionOutcome(p, id, c, submissions)

(***************************************************************************)
(* C12 as stated: in every reachable state, a rating request for a stored  *)
(* submission made by any principal other than the student who submitted   *)
(* it (another student, or a principal of a non-student role) is rejected. *)
(***************************************************************************)
C12_OnlySubmitterAccepted ==
    \A p \in Principals, id \in 1..Len(submissions), c \in ValidComprehensions :
        p.id # submissions[id].student_id => Rejected(RatingNow(p, id, c))

(***************************************************************************)
(* C12 amended: a valid rating request for a stored submission is rejected *)
(* (bad request) exactly when the principal is a student other than the    *)
(* one who submitted it; the submitting student and a principal of a       *)
(* non-student role are accepted.  No request that ends in a rejection     *)
(* changes a stored submission.                                            *)
(***************************************************************************)
C12_OtherStudentsRejected ==
    /\ [](\A p \in Principals, id \in 1..Len(submissions),
             c \in ValidComprehensions :
            IF p.type = "STUDENT" /\ p.id # submissions[id].student_id
              THEN RatingNow(p, id, c).err = "BadRequestError"
              ELSE RatingNow(p, id, c).err = "none")
    /\ [][Rejected(last') => submissions' = submissions]_vars

\* a student's rating of another student's submission has been rejected
C12_Witness ==
    /\ last.reason = "OtherStudentSubmission"
    /\ \E i \in 1..Len(submissions) : submissions[i].comprehension = 0

(***************************************************************************)
(* C13 as stated: no step changes a stored submission whose comprehension  *)
(* rating has been set.                                                    *)
(***************************************************************************)
C13_RatedOnce ==
    [][\A i \in 1..Len(submissions) :
            submissions[i].comprehension # 0
                => submissions'[i] = submissions[i]]_vars


\* the instant of a review, and the adjusted signal the claims speak of
DateOf(review) == ParseDate(review.date_submitted)

SignalOf(review) ==
    review.book_lexile_measure + 50 * (review.comprehension - 4)

\* the sum of a number per position, over a set of positions of a list
RECURSIVE SumOver(_, _, _)
SumOver(Val(_), list, S) ==
    IF S = {} THEN 0
    ELSE LET i == CHOOSE j \in S : TRUE
         IN  Val(list[i]) + SumOver(Val, list, S \ {i})

LexileOf(review) == review.book_lexile_measure

\* the choices of 3 positions holding the greatest dates of a list
TopThrees(list) ==
    {S \in SUBSET (1..Len(list)) :
        /\ Cardinality(S) = 3
        /\ \A i \in S, j \in (1..Len(list)) \ S :
              DateOf(list[j]) <= DateOf(list[i])}

\* two quotients are the same number
SameNumber(a, b) == a.num * b.den = b.num * a.den

(***************************************************************************)
(* C14: computeCurrentLexileMeasure returns the initial measure unchanged  *)
(* for a list of fewer than 3 reviews, and otherwise the sum divided by 3  *)
(* of book_lexile_measure + 50 * (comprehension - 4) over 3 reviews with   *)
(* the greatest date_submitted; three reviews all rated 4 give the mean of *)
(* their book_lexile_measure values.                                       *)
(***************************************************************************)
C14_LexileMeasure ==
    calc.fn = "lexile" =>
        LET list == calc.reviews
            all  == 1..Len(list)
        IN  /\ Len(list) < 3 =>
                  calc.result = [num |-> calc.initial, den |-> 1]
            /\ Len(list) >= 3 =>
                  /\ calc.result.den > 0
                  /\ \E S \in TopThrees(list) :
                        3 * calc.result.num
                            = calc.result.den * SumOver(SignalOf, list, S)
            /\ (Len(list) = 3 /\ \A i \in all : list[i].comprehension = 4) =>
                  3 * calc.result.num
                      = calc.result.den * SumOver(LexileOf, list, all)

\* the function has been called with more than 3 reviews, some of them
\* not rated 4, and returned a measure other than the initial one
C14_Witness ==
    /\ calc.fn = "lexile"
    /\ Len(calc.reviews) > 3
    /\ \E i \in 1..Len(calc.reviews) : calc.reviews[i].comprehension # 4
    /\ ~SameNumber(calc.result, [num |-> calc.initial, den |-> 1])


\* the orders a list can be given in
Reorderings(list) ==
    LET n == Len(list)
        perms == {f \in [1..n -> 1..n] : \A i, j \in 1..n : f[i] = f[j] => i = j}
    IN  {[i \in 1..n |-> list[f[i]]] : f \in perms}

\* the date of the oldest of the 3 reviews the function takes
OldestTaken(list) ==
    CHOOSE d \in {DateOf(list[i]) : i \in 1..Len(list)} :
        /\ Cardinality({i \in 1..Len(list) : DateOf(list[i]) > d}) < 3
        /\ Cardinality({i \in 1..Len(list) : DateOf(list[i]) >= d}) >= 3

\* a review outside the 3 taken has the date of one of them
TiedWithTaken(list) ==
    Cardinality({i \in 1..Len(list) : DateOf(list[i]) >= OldestTaken(list)}) > 3

\* the positions and the reviews strictly older than the 3 taken
OlderPositions(list) ==
    {i \in 1..Len(list) : DateOf(list[i]) < OldestTaken(list)}

OlderReviews(list) ==
    {r \in ReviewInputs : DateOf(r) < OldestTaken(list)}

Without(list, i) == SubSeq(list, 1, i - 1) \o SubSeq(list, i + 1, Len(list))

WithAt(list, i, review) ==
    SubSeq(list, 1, i - 1) \o <<review>> \o SubSeq(list, i, Len(list))

\* the lists got from a list by adding, removing or changing a review
\* strictly older than the 3 taken
OlderEdits(list) ==
    {WithAt(list, i, r) : i \in 1..(Len(list) + 1), r \in OlderReviews(list)}
    \cup {Without(list, i) : i \in OlderPositions(list)}
    \cup {[list EXCEPT ![i] = r] : i \in OlderPositions(list),
                                  r \in OlderReviews(list)}

\* the result of a call is that of the calls with any other initial
\* measure and with any edit of the reviews older than the 3 taken
SameForOlderEdits ==
    LET list == calc.reviews
    IN  /\ \A m \in InitialLexileInputs :
              ComputeCurrentLexileMeasure(m, list) = calc.result
        /\ \A other \in OlderEdits(list) :
              ComputeCurrentLexileMeasure(calc.initial, other) = calc.result

SameForReorderings ==
    \A other \in Reorderings(calc.reviews) :
        ComputeCurrentLexileMeasure(calc.initial, other) = calc.result

(***************************************************************************)
(* C15 as stated: for a list of at least 3 reviews the result is the same  *)
(* after adding, removing or changing a review strictly older than the 3   *)
(* most recent, after changing the initial measure, and after reordering   *)
(* the list.                                                               *)
(***************************************************************************)
C15_DependsOnRecentOnly ==
    (calc.fn = "lexile" /\ Len(calc.reviews) >= 3) =>
        /\ SameForOlderEdits
        /\ SameForReorderings

(***************************************************************************)
(* C15 amended: the result is the same after those edits of older reviews  *)
(* and changes of the initial measure; it is the same after reordering the *)
(* list when no review outside the 3 most recent has the date_submitted of *)
(* one of them.                                                            *)
(***************************************************************************)
C15_DependsOnRecentUnlessTied ==
    (calc.fn = "lexile" /\ Len(calc.reviews) >= 3) =>
        /\ SameForOlderEdits
        /\ ~TiedWithTaken(calc.reviews) => SameForReorderings

\* a call with an older review behind 3 more recent ones of distinct dates
\* and distinct signals, where the order matters to the sort
C15_Witness ==
    /\ calc.fn = "lexile"
    /\ Len(calc.reviews) > 3
    /\ ~TiedWithTaken(calc.reviews)
    /\ OlderPositions(calc.reviews) # {}
    /\ DateOf(calc.reviews[1]) < DateOf(calc.reviews[2])
    /\ ~SameNumber(calc.result, [num |-> calc.initial, den |-> 1])


\* the interest the claim counts for a genre of a book
CountedInterest(genreId) ==
    IF genreId \in DOMAIN calc.genreInterests
      THEN calc.genreInterests[genreId]
      ELSE 3

\* the sum of the counted interests over the positions of the genre list
RECURSIVE CountedSum(_)
CountedSum(S) ==
    IF S = {} THEN 0
    ELSE LET i == CHOOSE j \in S : TRUE
         IN  CountedInterest(calc.book.genres[i]) + CountedSum(S \ {i})

(***************************************************************************)
(* C16: for a book with a non-empty genre list and amazon_popularity in    *)
(* [0,5], and interests in [1,4] (3 for a genre the map lacks),            *)
(* computeMatchScore returns the popularity times the mean per-genre       *)
(* interest, divided by 20; the value is in [0, 1], and it is 1 for a      *)
(* single genre of interest 4 and popularity 5.                            *)
(***************************************************************************)
C16_MatchScore ==
    (calc.fn = "match" /\ calc.book.genres # <<>>) =>
        LET n   == Len(calc.book.genres)
            pop == calc.book.amazon_popularity
            res == calc.result
        IN  /\ res.den > 0
            /\ res.num * (pop.den * n * 20) = res.den * (pop.num * CountedSum(1..n))
            /\ 0 <= res.num /\ res.num <= res.den
            /\ (/\ n = 1
                /\ CountedInterest(calc.book.genres[1]) = 4
                /\ pop.num = 5 * pop.den) => res.num = res.den

\* a book of two genres, one of them absent from the map, and a score
\* strictly between 0 and 1
C16_Witness ==
    /\ calc.fn = "match"
    /\ Len(calc.book.genres) = 2
    /\ calc.book.genres[1] \in DOMAIN calc.genreInterests
    /\ calc.book.genres[2] \notin DOMAIN calc.genreInterests
    /\ 0 < calc.result.num /\ calc.result.num < calc.result.den


\* the stored collections the routes of quizzes.ts can write
Collections == <<submissions, quizzes>>

(***************************************************************************)
(* C17: a submitQuiz request rejected by any check creates no submission   *)
(* and leaves the stored collections unchanged; a step that changes the    *)
(* stored submissions is the one create of a request that passed every     *)
(* check: it adds one submission behind those stored, which stay as they   *)
(* were, and changes nothing else.                                         *)
(***************************************************************************)
C17_RejectedWritesNothing ==
    [][/\ Rejected(last') => Collections' = Collections
       /\ submissions' # submissions =>
            /\ last'.err = "none"
            /\ last'.graded
            /\ Len(submissions') = Len(submissions) + 1
            /\ SubSeq(submissions', 1, Len(submissions)) = submissions
            /\ quizzes' = quizzes]_vars

\* a request has been rejected at the last check, the answer schema, with
\* submissions stored
C17_Witness ==
    /\ last.reason = "InvalidAnswerSchema"
    /\ submissions # <<>>


\* the hours between two stored submissions
HoursApart(a, b) ==
    LET ta == ParseDate(a.date_created)
        tb == ParseDate(b.date_created)
    IN  IF ta < tb THEN tb - ta ELSE ta - tb

(***************************************************************************)
(* C19: when submitQuiz executions do not interleave and the clock never   *)
(* goes backwards, any two distinct stored submissions of the same         *)
(* student, whatever their books, have date_created values at least        *)
(* MinHoursBetweenBookQuizAttempt hours apart.                             *)
(***************************************************************************)
C19_SubmissionsSpacedApart ==
    \A i, j \in 1..Len(submissions) :
        (i # j /\ submissions[i].student_id = submissions[j].student_id)
            => HoursApart(submissions[i], submissions[j])
                   >= MinHoursBetweenBookQuizAttempt

\* a student's submissions for two books, made exactly the waiting time
\* apart, and a third one later
C19_Witness ==
    /\ Len(submissions) >= 3
    /\ \E i, j \in 1..Len(submissions) :
        /\ submissions[i].student_id = submissions[j].student_id
        /\ submissions[i].book_id # submissions[j].book_id
        /\ HoursApart(submissions[i], submissions[j])
               = MinHoursBetweenBookQuizAttempt

(***************************************************************************)
(* C20 as stated: every stored submission names an existing user of        *)
(* student role, an existing book and an existing quiz, and that quiz has  *)
(* no book_id or has the book_id of the submission.                        *)
(***************************************************************************)
C20_ReferencesAgree ==
    \A i \in 1..Len(submissions) :
        LET s == submissions[i]
        IN  /\ Users[s.student_id].exists
            /\ Users[s.student_id].type = "STUDENT"
            /\ Books[s.book_id].exists
            /\ quizzes[s.quiz_id].exists
            /\ quizzes[s.quiz_id].book_id \in {"none", s.book_id}


\* the submission with another comprehension and nothing else changed
OnlyComprehensionDiffers(before, after) ==
    after = [before EXCEPT !.comprehension = after.comprehension]

(***************************************************************************)
(* C18: a step that changes a stored submission changes the comprehension  *)
(* field of that submission only: its other fields, every other stored     *)
(* submission and the number of submissions stay as they were; this holds  *)
(* when a submitQuiz or another setComprehensionForSubmission runs between *)
(* the handler's read of the submission and its write.                     *)
(***************************************************************************)
C18_OnlyComprehensionChanges ==
    [][/\ Len(submissions') >= Len(submissions)
       /\ \A i \in 1..Len(submissions) :
            submissions'[i] # submissions[i] =>
                /\ OnlyComprehensionDiffers(submissions[i], submissions'[i])
                /\ Len(submissions') = Len(submissions)
                /\ \A j \in 1..Len(submissions) :
                      j # i => submissions'[j] = submissions[j]]_vars

\* two handlers read the same unrated submission, a submitQuiz stored a
\* submission after their reads, and both have written: the stored rating
\* is that of one of them
C18_Witness ==
    \E k, h \in Slots :
        /\ k # h
        /\ inflight[k].pc = "rated" /\ inflight[h].pc = "rated"
        /\ inflight[k].req.submission.id = inflight[h].req.submission.id
        /\ inflight[k].req.submission.comprehension = 0
        /\ inflight[h].req.submission.comprehension = 0
        /\ inflight[k].req.comprehension # inflight[h].req.comprehension
        /\ Len(submissions) > inflight[k].seen
        /\ Len(submissions) > inflight[h].seen
        /\ submissions[inflight[k].req.submission.id].comprehension
               = inflight[k].req.comprehension


====
